---- MODULE Spec2Model ----
(***************************************************************************)
(* CLI Coding Agent Delegator (src/main.py).                               *)
(*                                                                         *)
(* Text is modelled as a sequence of one-character strings, so that        *)
(* substring tests, case folding, f-string interpolation, the Python       *)
(* reading of the generated script and str.strip() are all computed.       *)
(***************************************************************************)
EXTENDS Integers, Sequences, FiniteSets, TLC

\* ------------------------------------------------------------------ bounds
\* Longest free-form task text enumerated over Alphabet.
MaxLen == 3
\* Number of HTTP requests in a behaviour.
NumReq == 2

\* subprocess.run(..., timeout=30)
TimeoutSeconds == 30

\* ------------------------------------------------------------ text helpers
NL == "\n"
QUOTE == "\""
BSLASH == "\\"
\* Characters the escapes \a \f \t \r stand for.
BEL == "<BEL>"
FF == "<FF>"
TAB == "<TAB>"
CR == "<CR>"

\* Characters free-form tasks are drawn from.
Alphabet == {"a", QUOTE, BSLASH, "{", "}", " ", "9", "!"}

SeqsUpTo(S, n) == UNION {[1..k -> S] : k \in 0..n}

\* Python's `sub in s` for str.
Contains(s, sub) ==
    \E i \in 0..(Len(s) - Len(sub)) : SubSeq(s, i + 1, i + Len(sub)) = sub

StartsWith(s, p) == Len(s) >= Len(p) /\ SubSeq(s, 1, Len(p)) = p

Drop(s, n) == SubSeq(s, n + 1, Len(s))

\* str.lower() on one character (the upper-case letters the tasks use).
LowerChar(c) ==
    CASE c = "F" -> "f" [] c = "A" -> "a" [] c = "C" -> "c" [] c = "T" -> "t"
      [] c = "O" -> "o" [] c = "R" -> "r" [] c = "I" -> "i" [] c = "L" -> "l"
      [] OTHER -> c

\* str.lower()
Lower(s) == [i \in 1..Len(s) |-> LowerChar(s[i])]

\* Characters str.strip() removes.
Whitespace == {" ", NL, TAB, CR, FF}

RECURSIVE LStrip(_)
LStrip(s) == IF s # <<>> /\ s[1] \in Whitespace THEN LStrip(Tail(s)) ELSE s

RECURSIVE RStrip(_)
RStrip(s) ==
    IF s # <<>> /\ s[Len(s)] \in Whitespace
    THEN RStrip(SubSeq(s, 1, Len(s) - 1)) ELSE s

\* str.strip()
Strip(s) == RStrip(LStrip(s))

\* The source lines of a text, as the interpreter reads them: the pieces
\* between newlines, without a last empty piece.
SplitLines(s) ==
    LET starts == {a \in 1..Len(s) : a = 1 \/ s[a - 1] = NL}
        EndOf(a) ==
            IF \E i \in a..Len(s) : s[i] = NL
            THEN (CHOOSE i \in a..Len(s) : s[i] = NL /\ \A j \in a..(i - 1) : s[j] # NL) - 1
            ELSE Len(s)
        Nth(k) == CHOOSE a \in starts : Cardinality({c \in starts : c < a}) = k - 1
    IN [k \in 1..Cardinality(starts) |-> SubSeq(s, Nth(k), EndOf(Nth(k)))]

\* str(int) for a non-negative integer.
RECURSIVE Digits(_)
Digits(n) ==
    LET d == <<"0", "1", "2", "3", "4", "5", "6", "7", "8", "9">>[(n % 10) + 1]
    IN IF n < 10 THEN <<d>> ELSE Append(Digits(n \div 10), d)

\* math.factorial
RECURSIVE Factorial(_)
Factorial(n) == IF n <= 1 THEN 1 ELSE n * Factorial(n - 1)

\* -------------------------------------------------------- task classification
factorial == <<"f", "a", "c", "t", "o", "r", "i", "a", "l">>
nine_bang == <<"9", "!">>

\* line 50: "factorial" in task.lower() or "9!" in task
IsFactorialTask(task) == Contains(Lower(task), factorial) \/ Contains(task, nine_bang)

\* lines 51-54
FactorialCode == <<"i", "m", "p", "o", "r", "t", " ", "m", "a", "t", "h", "\n", "r", "e", "s", "u", "l", "t", " ", "=", " ", "m", "a", "t", "h", ".", "f", "a", "c", "t", "o", "r", "i", "a", "l", "(", "9", ")", "\n", "p", "r", "i", "n", "t", "(", "r", "e", "s", "u", "l", "t", ")", "\n">>

\* lines 57-60: the f-string pieces around the two {task} fields
GenericHead == <<"#", " ", "T", "a", "s", "k", ":", " ">>
GenericMid == <<"\n", "#", " ", "A", "u", "t", "o", "-", "g", "e", "n", "e", "r", "a", "t", "e", "d", " ", "s", "o", "l", "u", "t", "i", "o", "n", " ", "p", "l", "a", "c", "e", "h", "o", "l", "d", "e", "r", "\n", "p", "r", "i", "n", "t", "(", "\"", "T", "a", "s", "k", " ", "r", "e", "c", "e", "i", "v", "e", "d", ":", " ">>
GenericTail == <<"\"", ")", "\n">>

GenericCode(task) == GenericHead \o task \o GenericMid \o task \o GenericTail

\* lines 50-60
GenerateCodeAlwaysGeneric(task) == GenericCode(task)
GenerateCode(task) ==
    IF IsFactorialTask(task) THEN FactorialCode ELSE GenericCode(task)

\* ------------------------------------------------- the python subprocess
\* What `python solution.py` does with the file it finds, for the statements
\* the two generated scripts are made of: comments, `import math`,
\* `result = math.factorial(9)`, `print(result)` and `print(` followed by
\* string literals.

ImportMath == <<"i", "m", "p", "o", "r", "t", " ", "m", "a", "t", "h">>
AssignFactorial == <<"r", "e", "s", "u", "l", "t", " ", "=", " ", "m", "a", "t", "h", ".", "f", "a", "c", "t", "o", "r", "i", "a", "l", "(", "9", ")">>
PrintResult == <<"p", "r", "i", "n", "t", "(", "r", "e", "s", "u", "l", "t", ")">>
PrintOpen == <<"p", "r", "i", "n", "t", "(">>

\* Backslash escapes of a (non-raw) string literal.
EscapeKnown == {"a", QUOTE, BSLASH, "f", "t", "r"}
EscapeValue(c) ==
    CASE c = "a" -> BEL [] c = "f" -> FF [] c = "t" -> TAB [] c = "r" -> CR
      [] OTHER -> c

IsTripleQuote(s, i) ==
    i + 2 <= Len(s) /\ s[i] = QUOTE /\ s[i + 1] = QUOTE /\ s[i + 2] = QUOTE

ScanFail(warn, triple) ==
    [ok |-> FALSE, text |-> <<>>, warn |-> warn, triple |-> triple]

\* The first position from i on whose character is not in skip, or
\* Len(s) + 1 when there is none.
NextNotIn(s, i, skip) ==
    IF \E j \in i..Len(s) : s[j] \notin skip
    THEN CHOOSE j \in i..Len(s) :
             s[j] \notin skip /\ \A k \in i..(j - 1) : s[k] \in skip
    ELSE Len(s) + 1

\* The first position from i on that holds a quote or a backslash, or
\* Len(s) + 1 when there is none.
NextSpecial(s, i) ==
    IF \E j \in i..Len(s) : s[j] \in {QUOTE, BSLASH}
    THEN CHOOSE j \in i..Len(s) :
             s[j] \in {QUOTE, BSLASH} /\ \A k \in i..(j - 1) : s[k] \notin {QUOTE, BSLASH}
    ELSE Len(s) + 1

\* Tokenizes the argument list of a print( call made of adjacent string
\* literals; s is the line after "print(".  mode is "code" between tokens,
\* "str" inside "..." and "triple" inside """...""".  acc is the value of
\* the concatenated literals, warn whether an invalid escape was seen.
\* Between tokens only blanks may stand; inside a literal the characters up
\* to the next quote or backslash are taken as they are.
RECURSIVE ScanLiteral(_, _, _, _, _)
ScanLiteral(s, i, mode, acc, warn) ==
    IF mode = "code" THEN
        LET j == NextNotIn(s, i, {" "}) IN
        CASE j > Len(s) -> ScanFail(warn, FALSE)
          [] j <= Len(s) /\ s[j] = ")" ->
                [ok |-> (j = Len(s)), text |-> acc, warn |-> warn, triple |-> FALSE]
          [] IsTripleQuote(s, j) -> ScanLiteral(s, j + 3, "triple", acc, warn)
          [] j <= Len(s) /\ s[j] = QUOTE /\ ~IsTripleQuote(s, j) ->
                ScanLiteral(s, j + 1, "str", acc, warn)
          [] OTHER -> ScanFail(warn, FALSE)
    ELSE
        LET j == NextSpecial(s, i)
            got == acc \o SubSeq(s, i, j - 1)
        IN
        CASE j > Len(s) -> ScanFail(warn, mode = "triple")
          [] j = Len(s) /\ s[j] = BSLASH -> ScanFail(warn, mode = "triple")
          [] j < Len(s) /\ s[j] = BSLASH /\ s[j + 1] \in EscapeKnown ->
                ScanLiteral(s, j + 2, mode, Append(got, EscapeValue(s[j + 1])), warn)
          [] j < Len(s) /\ s[j] = BSLASH /\ s[j + 1] \notin EscapeKnown ->
                ScanLiteral(s, j + 2, mode, got \o <<BSLASH, s[j + 1]>>, TRUE)
          [] j <= Len(s) /\ s[j] = QUOTE /\ mode = "str" ->
                ScanLiteral(s, j + 1, "code", got, warn)
          [] j <= Len(s) /\ s[j] = QUOTE /\ mode = "triple" /\ IsTripleQuote(s, j) ->
                ScanLiteral(s, j + 3, "code", got, warn)
          [] OTHER -> ScanLiteral(s, j + 1, mode, Append(got, s[j]), warn)

IsComment(line) == line = <<>> \/ line[1] = "#"
IsPrintLiteral(line) ==
    StartsWith(line, PrintOpen) /\ line # PrintResult
Literal(line) == ScanLiteral(Drop(line, Len(PrintOpen)), 1, "code", <<>>, FALSE)

LineCompiles(line) ==
    \/ IsComment(line)
    \/ line \in {ImportMath, AssignFactorial, PrintResult}
    \/ IsPrintLiteral(line) /\ Literal(line).ok

\* stderr texts; everything but the echoed source line is one opaque token.
SyntaxErrorText(line, echo) ==
    <<" ", " ", "File \"solution.py\", line N", NL>>
    \o (IF echo THEN <<" ", " ", " ", " ">> \o line \o <<NL, "^", NL>> ELSE <<>>)
    \o <<"SyntaxError", NL>>
SyntaxWarningText(line) ==
    <<"solution.py:N: SyntaxWarning: invalid escape sequence", NL, " ", " ">>
    \o line \o <<NL>>
NameErrorText ==
    <<"Traceback (most recent call last): NameError", NL>>
CantOpenText ==
    <<"python: can't open file 'solution.py': [Errno 2] No such file or directory", NL>>

Completed(out, err, rc) == [stdout |-> out, stderr |-> err, returncode |-> rc]

\* Runs compiled lines i.. with `math` imported or not and `result` bound
\* (val >= 0) or not; out is the stdout written so far.
RECURSIVE RunLines(_, _, _, _, _)
RunLines(lines, i, math, val, out) ==
    IF i > Len(lines) THEN Completed(out, <<>>, 0)
    ELSE LET line == lines[i] IN
        IF IsComment(line) THEN RunLines(lines, i + 1, math, val, out)
        ELSE IF line = ImportMath THEN RunLines(lines, i + 1, TRUE, val, out)
        ELSE IF line = AssignFactorial THEN
            IF math THEN RunLines(lines, i + 1, math, Factorial(9), out)
            ELSE Completed(out, NameErrorText, 1)
        ELSE IF line = PrintResult THEN
            IF val >= 0 THEN RunLines(lines, i + 1, math, val, out \o Digits(val) \o <<NL>>)
            ELSE Completed(out, NameErrorText, 1)
        ELSE RunLines(lines, i + 1, math, val, out \o Literal(line).text \o <<NL>>)

\* The outcomes of `python solution.py` that exits by itself, for a script
\* with the given text.  Where interpreter versions differ (whether an
\* invalid escape sequence is reported on stderr, whether an unterminated
\* triple-quoted string echoes its first line) every outcome is included.
Interpret(src) ==
    LET lines == SplitLines(src)
        bad == {i \in 1..Len(lines) : ~LineCompiles(lines[i])}
        warned == {i \in 1..Len(lines) :
                     IsPrintLiteral(lines[i]) /\ Literal(lines[i]).warn}
    IN IF bad # {} THEN
           LET b == CHOOSE i \in bad : \A j \in bad : i <= j
               triple == IsPrintLiteral(lines[b]) /\ Literal(lines[b]).triple
           IN {Completed(<<>>, SyntaxErrorText(lines[b], echo), 1) :
                 echo \in (IF triple THEN {TRUE, FALSE} ELSE {TRUE})}
       ELSE LET run == RunLines(lines, 1, FALSE, -1, <<>>) IN
           IF warned = {} THEN {run}
           ELSE LET w == CHOOSE i \in warned : \A j \in warned : i <= j
                IN {run, Completed(run.stdout,
                                   SyntaxWarningText(lines[w]) \o run.stderr,
                                   run.returncode)}

\* A file of the workspace directory: whether the directory exists, whether
\* solution.py exists in it, and its text.
NoDirectory == [dir |-> FALSE, file |-> FALSE, text |-> <<>>]
EmptyDirectory == [dir |-> TRUE, file |-> FALSE, text |-> <<>>]
WithScript(text) == [dir |-> TRUE, file |-> TRUE, text |-> text]

PythonOutcomes(ws) ==
    IF ws.file THEN Interpret(ws.text) ELSE {Completed(<<>>, CantOpenText, 2)}

\* ------------------------------------------------------ execution results
StderrOpen == <<"\n", "[", "s", "t", "d", "e", "r", "r", ":", " ">>
ErrorPrefix == <<"E", "r", "r", "o", "r", ":", " ">>
TimeoutMessage == <<"E", "r", "r", "o", "r", ":", " ", "A", "g", "e", "n", "t", " ", "e", "x", "e", "c", "u", "t", "i", "o", "n", " ", "t", "i", "m", "e", "d", " ", "o", "u", "t", " ", "a", "f", "t", "e", "r", " ", "3", "0", " ", "s", "e", "c", "o", "n", "d", "s">>

\* Exceptions: the class and str(e).
NoException == [raised |-> FALSE, type |-> "", text |-> <<>>]
Raise(type, text) == [raised |-> TRUE, type |-> type, text |-> text]
\* tempfile.TemporaryDirectory() failing (line 42)
MkdtempFault == Raise("PermissionError", <<"[Errno 13] Permission denied: '/tmp/tmp'">>)
\* open()/write() failing (lines 63-64)
WriteFault == Raise("OSError", <<"[Errno 28] No space left on device">>)
\* subprocess.run failing to spawn (line 69)
SpawnFault == Raise("FileNotFoundError", <<"[Errno 2] No such file or directory: 'python'">>)
\* subprocess.run exceeding timeout=30 (line 73)
TimeoutExpired ==
    Raise("TimeoutExpired", <<"Command '['python', 'solution.py']' timed out after ">>
                            \o Digits(TimeoutSeconds) \o <<" seconds">>)
Faults == {MkdtempFault, WriteFault, SpawnFault}

NoProcess == [stdout |-> <<>>, stderr |-> <<>>, returncode |-> 0]
NoResult == [success |-> FALSE, output |-> <<>>, code |-> <<>>, returncode |-> 0]

\* lines 78-81
Output(proc) ==
    IF proc.stderr # <<>>
    THEN Strip(proc.stdout) \o StderrOpen \o Strip(proc.stderr) \o <<"]">>
    ELSE Strip(proc.stdout)

\* lines 78-90
CompletedResultByReturncode(text, proc) ==
    [success |-> (proc.returncode = 0), output |-> Output(proc),
     code |-> Strip(text), returncode |-> proc.returncode]
CompletedResult(text, proc) ==
    [success |-> TRUE, output |-> Output(proc),
     code |-> Strip(text), returncode |-> proc.returncode]

\* lines 94-99
TimeoutResult ==
    [success |-> FALSE, output |-> TimeoutMessage, code |-> <<>>, returncode |-> -1]

\* lines 102-107
GenericResultNoPrefix(e) ==
    [success |-> FALSE, output |-> e.text, code |-> <<>>, returncode |-> -1]
GenericResult(e) ==
    [success |-> FALSE, output |-> ErrorPrefix \o e.text, code |-> <<>>, returncode |-> -1]

\* lines 92-107: the except clauses in their order
ExceptResultGenericFirst(e) == GenericResult(e)
ExceptResult(e) ==
    IF e.type = "TimeoutExpired" THEN TimeoutResult ELSE GenericResult(e)

\* ------------------------------------------------------------- HTTP layer
Agent == "copilot-cli"
Email == "23f2000764@ds.study.iitm.ac.in"
Now == "datetime.now().isoformat()"

NoResponse == [status |-> 0, body |-> [none |-> TRUE]]

\* lines 126-131, 144
TaskResponseFaultAsError(task, res) ==
    [status |-> (IF res.success THEN 200 ELSE 500),
     body |-> [task |-> task, agent |-> Agent, output |-> res.output, email |-> Email]]
TaskResponse(task, res) ==
    [status |-> 200,
     body |-> [task |-> task, agent |-> Agent, output |-> res.output, email |-> Email]]

\* lines 134-141
LogEntryAlwaysSuccess(task, resp, res) ==
    [timestamp |-> Now, task |-> task, agent |-> resp.body.agent,
     output |-> resp.body.output, success |-> TRUE,
     returncode |-> res.returncode]
LogEntry(task, resp, res) ==
    [timestamp |-> Now, task |-> task, agent |-> resp.body.agent,
     output |-> resp.body.output, success |-> res.success,
     returncode |-> res.returncode]

\* line 110: q is a required query parameter (Query(...))
QueryValidAcceptMissing(req) == TRUE
QueryValid(req) == req.hasq

ValidationError == [status |-> 422, body |-> [detail |-> "Field required"]]

\* lines 149-156
RootResponse ==
    [status |-> 200,
     body |-> [status |-> "running", service |-> "CLI Coding Agent Delegator",
               endpoints |-> {"/task", "/health"}]]
\* lines 161-164
HealthResponse ==
    [status |-> 200, body |-> [status |-> "healthy", timestamp |-> Now]]

\* ------------------------------------------------------------------ state
VARIABLES
    request,       \* per request: route, whether q was supplied, q
    pc,            \* per request: where its handler stands
    tmpdir,        \* run_coding_agent: the workspace name (0: none yet)
    code,          \* run_coding_agent: the synthesized script text
    exc,           \* run_coding_agent: the exception raised, if any
    result,        \* run_coding_agent: the CompletedProcess of line 69
    agent_result,  \* execute_task: the dict run_coding_agent returned
    response,      \* the HTTP response sent
    fs,            \* the temporary directories on disk, by name
    log            \* the structured "Task completed" entries of the log sink

vars == <<request, pc, tmpdir, code, exc, result, agent_result, response, fs, log>>

Requests == 1..NumReq
\* Directory names.  A name stands for one directory ever created (mkdtemp
\* draws 8 random characters), so one per request is always enough.
Names == 1..NumReq

Keywords ==
    {factorial,
     <<"F", "A", "C", "T", "O", "R", "I", "A", "L">>,
     <<"F", "a", "c", "t", "o", "r", "i", "a", "l">>}
KeywordTasks ==
    {p \o k \o t : p \in SeqsUpTo(Alphabet, 1), k \in Keywords,
                   t \in SeqsUpTo(Alphabet, 1)}
NearMisses ==
    {<<"f", "a", "c", "t", "o", "r", "i", "a">>,
     <<"a", "c", "t", "o", "r", "i", "a", "l">>,
     <<"f", "a", "c", "t", "o", "r", " ", "i", "a", "l">>,
     <<"!", "9">>}
\* Task texts of the single-request specification.
Tasks == SeqsUpTo(Alphabet, MaxLen) \cup KeywordTasks \cup NearMisses
\* Task texts of the concurrent specification.
SmallTasks == {nine_bang, <<"a">>, <<QUOTE>>}

TaskRequest(task) == [route |-> "/task", hasq |-> TRUE, q |-> task]
MissingQuery == [route |-> "/task", hasq |-> FALSE, q |-> <<>>]
RootRequest == [route |-> "/", hasq |-> FALSE, q |-> <<>>]
HealthRequest == [route |-> "/health", hasq |-> FALSE, q |-> <<>>]
RequestsOver(T) ==
    {TaskRequest(t) : t \in T} \cup {MissingQuery, RootRequest, HealthRequest}

InitRest ==
    /\ pc = [r \in Requests |-> "arrive"]
    /\ tmpdir = [r \in Requests |-> 0]
    /\ code = [r \in Requests |-> <<>>]
    /\ exc = [r \in Requests |-> NoException]
    /\ result = [r \in Requests |-> NoProcess]
    /\ agent_result = [r \in Requests |-> NoResult]
    /\ response = [r \in Requests |-> NoResponse]
    /\ fs = [d \in Names |-> NoDirectory]
    /\ log = <<>>

\* Any mix of requests, in flight together.
Init ==
    /\ request \in [Requests -> RequestsOver(SmallTasks)]
    /\ InitRest

\* One request with any task text; the others are health probes.
InitTasks ==
    /\ \E first \in RequestsOver(Tasks) :
          request = [r \in Requests |-> IF r = 1 THEN first ELSE HealthRequest]
    /\ InitRest

\* tempfile.mkdtemp: a name no existing directory has (and, names being
\* random, none that an earlier call drew)
FreshNamesAny(files) == Names
FreshNames(files) ==
    {d \in Names : ~files[d].dir /\ \A r \in Requests : tmpdir[r] # d}

\* ---------------------------------------------------------------- actions
\* GET / (lines 146-156)
root(r) ==
    /\ pc[r] = "arrive" /\ request[r].route = "/"
    /\ response' = [response EXCEPT ![r] = RootResponse]
    /\ pc' = [pc EXCEPT ![r] = "done"]
    /\ UNCHANGED <<request, tmpdir, code, exc, result, agent_result, fs, log>>

\* GET /health (lines 158-164)
health(r) ==
    /\ pc[r] = "arrive" /\ request[r].route = "/health"
    /\ response' = [response EXCEPT ![r] = HealthResponse]
    /\ pc' = [pc EXCEPT ![r] = "done"]
    /\ UNCHANGED <<request, tmpdir, code, exc, result, agent_result, fs, log>>

\* GET /task without q: rejected by the framework (lines 109-110)
RejectMissingQuery(r) ==
    /\ pc[r] = "arrive" /\ request[r].route = "/task"
    /\ ~QueryValid(request[r])
    /\ response' = [response EXCEPT ![r] = ValidationError]
    /\ pc' = [pc EXCEPT ![r] = "done"]
    /\ UNCHANGED <<request, tmpdir, code, exc, result, agent_result, fs, log>>

\* execute_task calls run_coding_agent(q), which creates the workspace and
\* synthesizes the script (lines 120-123, 38-60).  No handler looks at the
\* name drawn, only at whether two names are equal, so of the fresh names
\* the least is taken.
StartAgent(r) ==
    /\ pc[r] = "arrive" /\ request[r].route = "/task"
    /\ QueryValid(request[r])
    /\ \/ \E d \in FreshNames(fs) :
            /\ \A other \in FreshNames(fs) : d <= other
            /\ fs' = [fs EXCEPT ![d] = EmptyDirectory]
            /\ tmpdir' = [tmpdir EXCEPT ![r] = d]
            /\ code' = [code EXCEPT ![r] = GenerateCode(request[r].q)]
            /\ pc' = [pc EXCEPT ![r] = "write"]
            /\ UNCHANGED exc
       \/ /\ exc' = [exc EXCEPT ![r] = MkdtempFault]
          /\ pc' = [pc EXCEPT ![r] = "except"]
          /\ UNCHANGED <<fs, tmpdir, code>>
    /\ UNCHANGED <<request, result, agent_result, response, log>>

\* lines 63-66
WriteScript(r) ==
    /\ pc[r] = "write"
    /\ \/ /\ fs[tmpdir[r]].dir
          /\ fs' = [fs EXCEPT ![tmpdir[r]] = WithScript(code[r])]
          /\ pc' = [pc EXCEPT ![r] = "run"]
          /\ UNCHANGED exc
       \/ /\ exc' = [exc EXCEPT ![r] = WriteFault]
          /\ pc' = [pc EXCEPT ![r] = "unwind"]
          /\ UNCHANGED fs
    /\ UNCHANGED <<request, tmpdir, code, result, agent_result, response, log>>

\* subprocess.run and, when it returns, the result dict (lines 69-90)
RunScript(r) ==
    /\ pc[r] = "run"
    /\ \/ \E proc \in PythonOutcomes(fs[tmpdir[r]]) :
            /\ result' = [result EXCEPT ![r] = proc]
            /\ agent_result' = [agent_result EXCEPT ![r] = CompletedResult(code[r], proc)]
            /\ UNCHANGED exc
       \/ /\ exc' = [exc EXCEPT ![r] = TimeoutExpired]
          /\ UNCHANGED <<result, agent_result>>
       \/ /\ exc' = [exc EXCEPT ![r] = SpawnFault]
          /\ UNCHANGED <<result, agent_result>>
    /\ pc' = [pc EXCEPT ![r] = "unwind"]
    /\ UNCHANGED <<request, tmpdir, code, response, fs, log>>

\* leaving the `with tempfile.TemporaryDirectory()` block (line 42): the
\* directory is removed, then the return or the exception proceeds
ExitWorkspaceLeakOnException(r) ==
    /\ pc[r] = "unwind"
    /\ fs' = IF exc[r].raised THEN fs ELSE [fs EXCEPT ![tmpdir[r]] = NoDirectory]
    /\ pc' = [pc EXCEPT ![r] = IF exc[r].raised THEN "except" ELSE "returned"]
    /\ UNCHANGED <<request, tmpdir, code, exc, result, agent_result, response, log>>
ExitWorkspace(r) ==
    /\ pc[r] = "unwind"
    /\ fs' = [fs EXCEPT ![tmpdir[r]] = NoDirectory]
    /\ pc' = [pc EXCEPT ![r] = IF exc[r].raised THEN "except" ELSE "returned"]
    /\ UNCHANGED <<request, tmpdir, code, exc, result, agent_result, response, log>>

\* lines 92-107
HandleException(r) ==
    /\ pc[r] = "except"
    /\ agent_result' = [agent_result EXCEPT ![r] = ExceptResult(exc[r])]
    /\ pc' = [pc EXCEPT ![r] = "returned"]
    /\ UNCHANGED <<request, tmpdir, code, exc, result, response, fs, log>>

\* lines 125-144
LogAndRespond(r) ==
    /\ pc[r] = "returned"
    /\ LET resp == TaskResponse(request[r].q, agent_result[r]) IN
          /\ log' = Append(log, LogEntry(request[r].q, resp, agent_result[r]))
          /\ response' = [response EXCEPT ![r] = resp]
    /\ pc' = [pc EXCEPT ![r] = "done"]
    /\ UNCHANGED <<request, tmpdir, code, exc, result, agent_result, fs>>

Next ==
    \E r \in Requests :
        \/ root(r)
        \/ health(r)
        \/ RejectMissingQuery(r)
        \/ StartAgent(r)
        \/ WriteScript(r)
        \/ RunScript(r)
        \/ ExitWorkspace(r)
        \/ HandleException(r)
        \/ LogAndRespond(r)

Spec == Init /\ [][Next]_vars
SpecTasks == InitTasks /\ [][Next]_vars

\* ----------------------------------------------------------------- claims
\* The requests that reach the Task Executor.
IsTaskCall(r) == request[r].route = "/task" /\ request[r].hasq
Returned(r) == IsTaskCall(r) /\ pc[r] \in {"returned", "done"}
\* The subprocess ran and exited by itself: no exception on the way.
RanNormally(r) == Returned(r) /\ ~exc[r].raised

\* C1: for every task containing "factorial" in any letter case, or "9!",
\* a call whose subprocess ran normally returns success = true and an output
\* that contains 362880, whatever else the task text holds.
C1_FactorialOutput ==
    \A r \in Requests :
        RanNormally(r) /\ IsFactorialTask(request[r].q) =>
            /\ agent_result[r].success = TRUE
            /\ Contains(agent_result[r].output, <<"3", "6", "2", "8", "8", "0">>)

C1_Witness ==
    \E r \in Requests :
        /\ RanNormally(r) /\ pc[r] = "done"
        /\ Contains(request[r].q, <<"F", "A", "C", "T", "O", "R", "I", "A", "L">>)
        /\ Contains(request[r].q, <<QUOTE>>)

\* C2: for every task matching neither "factorial" nor "9!", quotes,
\* backslashes and braces included, a call whose subprocess ran normally
\* returns success = true and an output that contains the task text.
C2_EchoesTask ==
    \A r \in Requests :
        RanNormally(r) /\ ~IsFactorialTask(request[r].q) =>
            /\ agent_result[r].success = TRUE
            /\ Contains(agent_result[r].output, request[r].q)

\* C3: whenever run_coding_agent has returned (normally, after a timeout or
\* after any other exception) the workspace it created no longer exists,
\* nor does the script in it.
C3_WorkspaceRemoved ==
    \A r \in Requests :
        Returned(r) /\ tmpdir[r] # 0 =>
            ~fs[tmpdir[r]].dir /\ ~fs[tmpdir[r]].file

C3_Witness ==
    \E r \in Requests :
        /\ Returned(r) /\ tmpdir[r] # 0
        /\ exc[r] = TimeoutExpired

\* C4: a subprocess timeout returns exactly success = false, the fixed
\* timeout message, code = "" and returncode = -1: the timeout branch
\* handles it, not the generic one, and nothing the process wrote shows.
C4_TimeoutResult ==
    \A r \in Requests :
        Returned(r) /\ exc[r].type = "TimeoutExpired" =>
            agent_result[r] = [success |-> FALSE, output |-> TimeoutMessage,
                               code |-> <<>>, returncode |-> -1]

C4_Witness ==
    \E r \in Requests :
        /\ Returned(r) /\ exc[r].type = "TimeoutExpired"
        /\ code[r] # <<>> /\ ~IsFactorialTask(request[r].q)

\* C5: any exception other than a timeout, raised while creating the
\* workspace, writing the script or spawning the process, is not propagated:
\* the call returns success = false, output = "Error: " + str(e), code = ""
\* (even when the script text was synthesized) and returncode = -1.
C5_GenericFault ==
    \A r \in Requests :
        IsTaskCall(r) /\ exc[r].raised /\ exc[r].type # "TimeoutExpired" =>
            /\ pc[r] \in {"except", "unwind", "returned", "done"}
            /\ Returned(r) =>
                 agent_result[r] = [success |-> FALSE,
                                    output |-> ErrorPrefix \o exc[r].text,
                                    code |-> <<>>, returncode |-> -1]
            /\ pc[r] = "done" => response[r].status = 200

C5_Witness ==
    \E r \in Requests :
        /\ Returned(r) /\ exc[r] = WriteFault
        /\ code[r] # <<>>

\* C6: a subprocess that exits within the budget gives success = true and
\* returncode = its exit code, zero or not, stderr empty or not; a result
\* with success = false has returncode = -1 and code = "".
C6_SuccessIffNoFault ==
    \A r \in Requests :
        Returned(r) =>
            /\ ~exc[r].raised =>
                 /\ agent_result[r].success = TRUE
                 /\ agent_result[r].returncode = result[r].returncode
            /\ agent_result[r].success = FALSE =>
                 /\ exc[r].raised
                 /\ agent_result[r].returncode = -1
                 /\ agent_result[r].code = <<>>

C6_Witness ==
    \E r \in Requests :
        /\ RanNormally(r)
        /\ result[r].returncode # 0 /\ result[r].stderr # <<>>
        /\ agent_result[r].success

\* C7: every GET /task request that supplies q is answered with status 200
\* and the body {task: q, agent: "copilot-cli", output: the executor's
\* output, email: the fixed contact}, whatever the executor's outcome.
C7_AlwaysOk ==
    \A r \in Requests :
        IsTaskCall(r) /\ pc[r] = "done" =>
            response[r] = [status |-> 200,
                           body |-> [task |-> request[r].q,
                                     agent |-> "copilot-cli",
                                     output |-> agent_result[r].output,
                                     email |-> "23f2000764@ds.study.iitm.ac.in"]]

C7_Witness ==
    \E r \in Requests :
        /\ IsTaskCall(r) /\ pc[r] = "done"
        /\ agent_result[r].success = FALSE
        /\ exc[r].type # "TimeoutExpired"

\* The requests that reach the Task Executor and stand at one of `states`.
ValidTasks(states) == {r \in Requests : IsTaskCall(r) /\ pc[r] \in states}

\* C8: a GET /task request without q is answered with a client error and
\* never reaches the Task Executor: no call, no workspace, no subprocess
\* and no log entry come from it.
C8_MissingQueryRejected ==
    /\ \A r \in Requests :
          request[r].route = "/task" /\ ~request[r].hasq =>
              /\ pc[r] \in {"arrive", "done"}
              /\ tmpdir[r] = 0 /\ code[r] = <<>>
              /\ result[r] = NoProcess /\ agent_result[r] = NoResult
              /\ pc[r] = "done" =>
                   response[r].status \in 400..499
    /\ Cardinality({d \in Names : fs[d].dir})
         <= Cardinality(ValidTasks({"write", "run", "unwind"}))
    /\ Len(log) <= Cardinality(ValidTasks({"done"}))

C8_Witness ==
    \E r, t \in Requests :
        /\ request[r].route = "/task" /\ ~request[r].hasq /\ pc[r] = "done"
        /\ IsTaskCall(t) /\ pc[t] = "done"

\* C9 as stated: every request, once answered, has appended exactly one
\* structured entry to the log.
C9_EveryRequestLogs ==
    Len(log) = Cardinality({r \in Requests : pc[r] = "done"})

\* The step that answers request r appends r's own entry (lines 134-142).
C9_AppendStep(r) ==
    /\ IsTaskCall(r) /\ pc[r] = "returned" /\ response[r] = NoResponse
    /\ log' = Append(log, [timestamp |-> Now,
                           task |-> request[r].q,
                           agent |-> "copilot-cli",
                           output |-> agent_result[r].output,
                           success |-> agent_result[r].success,
                           returncode |-> agent_result[r].returncode])

\* C9 as amended: every GET /task request that supplies q appends exactly
\* one structured entry, after the executor returned and before its response
\* is sent, with its own task, output, success and returncode; no other
\* step touches the log and entries are never removed or changed.
C9_TaskRequestLogsOnce ==
    /\ [](Len(log) = Cardinality(ValidTasks({"done"})))
    /\ [][\A r \in Requests :
            IF pc'[r] = "done" /\ pc[r] # "done" /\ IsTaskCall(r)
            THEN C9_AppendStep(r)
            ELSE pc'[r] # pc[r] => log' = log]_vars

C9_Witness ==
    /\ Len(log) = 1
    /\ log[1].success = FALSE /\ log[1].returncode = -1
    /\ \E r \in Requests : ~IsTaskCall(r) /\ pc[r] = "done"

\* The results run_coding_agent can return for a task run on its own, and
\* the table of them over the task texts of the concurrent specification.
ResultsOf(task) ==
    {CompletedResult(GenerateCode(task), p) : p \in Interpret(GenerateCode(task))}
    \cup {TimeoutResult} \cup {GenericResult(e) : e \in Faults}
ResultsByTask ==
    UNION {{<<task, res>> : res \in ResultsOf(task)} : task \in SmallTasks}

\* C10: no two executions share a workspace, the script a call runs is the
\* one it wrote, and a call's result is one its own task text alone allows,
\* whatever other requests are in flight or came before.
C10_Isolation ==
    /\ \A r, t \in Requests :
          r # t /\ tmpdir[r] # 0 /\ tmpdir[t] # 0 => tmpdir[r] # tmpdir[t]
    /\ \A r \in Requests :
          pc[r] = "run" => fs[tmpdir[r]] = WithScript(GenerateCode(request[r].q))
    /\ \A r \in Requests :
          Returned(r) => <<request[r].q, agent_result[r]>> \in ResultsByTask

C10_Witness ==
    \E r, t \in Requests :
        /\ r # t /\ pc[r] = "run" /\ pc[t] = "run"
        /\ request[r].q # request[t].q

====
